---- MODULE Spec2Model ----
(***************************************************************************)
(* State-machine model of the useLiveKit session hook                      *)
(* (src/unnamed/part_002): the React state it owns, the LiveKit room       *)
(* objects it creates, and one action per callback / continuation.         *)
(*                                                                         *)
(* Every handler body is one atomic step (one event-loop tick); every      *)
(* `await` splits the enclosing async function into separate steps.        *)
(***************************************************************************)
EXTENDS Integers, Sequences, FiniteSets, TLC

\* ---------------------------------------------------------------- bounds
MaxRooms == 1
MaxLen == 2
MaxTracks == 1
MaxInFlight == 1
BinCount == 10
MaxRequests == 2

\* ------------------------------------------------------ value vocabulary
\* JavaScript null and undefined (a missing JSON field).
Null == "null"
Missing == "undefined"
NoRoom == 0

RoomIds == 1..MaxRooms

\* JavaScript truthiness of a string-or-missing value.
Truthy(x) == x \notin {Null, Missing, ""}

\* `x || d`
OrElse(x, d) == IF Truthy(x) THEN x ELSE d

WaitingMessage == "Waiting for your response..."

ErrTokenHttp == "Failed to get access token"
ErrNoToken == "No token received from server"
ErrTransport == "could not establish connection"
ErrSendText == "Failed to send message"
ErrSendOption == "Failed to send option"

\* ------------------------------------------------------- inbound payloads
StateVals == {"thinking", "processing", "ready_to_speak", "waiting_for_user",
              "speaking"}
MessageVals == {Missing, "m"}
SpeakerVals == {Missing, "user", "agent"}
TextVals == {Missing, "", "a"}
SpeechVals == {Missing, "s"}
OptionVals == {<<"x">>}

BlankMsg ==
  [type |-> Missing, state |-> Missing, message |-> Missing,
   hasOptions |-> FALSE, options |-> <<>>, text |-> Missing,
   speaker |-> Missing]

StateUpdateMsgs ==
  {[BlankMsg EXCEPT !.type = "state_update", !.state = s, !.message = g] :
     s \in StateVals, g \in MessageVals}

OptionsMsgs ==
  {[BlankMsg EXCEPT !.type = "options", !.hasOptions = TRUE, !.options = o,
                    !.message = "m"] : o \in OptionVals}
  \cup {[BlankMsg EXCEPT !.type = "options"]}

CurrentSpeechMsgs ==
  {[BlankMsg EXCEPT !.type = "current_speech", !.text = t] : t \in SpeechVals}

TranscriptMsgs ==
  {[BlankMsg EXCEPT !.type = "transcript", !.speaker = s, !.text = "a"] :
     s \in SpeakerVals}
  \cup {[BlankMsg EXCEPT !.type = "transcript", !.speaker = "agent",
                         !.text = t] : t \in TextVals}

\* a well-formed object with an unknown type, or with no type at all
UnknownMsgs ==
  {[BlankMsg EXCEPT !.type = "user_message", !.text = "a"],
   [BlankMsg EXCEPT !.text = "a", !.message = "m"]}

Msgs == StateUpdateMsgs \cup OptionsMsgs \cup CurrentSpeechMsgs
          \cup TranscriptMsgs \cup UnknownMsgs

\* The decoded text of a data packet: blank, not JSON, the JSON literal
\* null, or a JSON object.
Payloads ==
  {[kind |-> k, data |-> BlankMsg] : k \in {"blank", "garbage", "null"}}
  \cup {[kind |-> "object", data |-> m] : m \in Msgs}

\* The sender of a packet is a RemoteParticipant (the agent) or is not (the
\* server, or no participant at all).
DataInputs ==
  {[fromRemote |-> TRUE, payload |-> p] : p \in Payloads}
  \cup {[fromRemote |-> FALSE, payload |-> [kind |-> "object", data |-> m]] :
          m \in {[BlankMsg EXCEPT !.type = "transcript", !.text = "a"],
                 [BlankMsg EXCEPT !.type = "state_update",
                                  !.state = "ready_to_speak"]}}

\* ------------------------------------------------------------------ state
VARIABLES
  room,                 \* useState(null): NoRoom or a room id
  isConnected,
  isConnecting,
  error,
  transcript,           \* sequence of [speaker, text]
  isAgentTyping,
  isAgentSpeaking,
  agentState,
  agentStateMessage,
  isUserExpectedToSpeak,
  options,
  optionsMessage,
  currentSpeech,
  rooms,                \* the Room objects created so far
  conn,                 \* position of the running connect() call
  disc,                 \* position of the running disconnect() call, with
                        \* what held when it was called
  justStarted,          \* history: the last step was the "started" handler
  inRow,                \* history: disconnect() calls completed back to back
  tick,                 \* history: parity of the number of steps taken, so
                        \* that a handler that changes nothing is a step too
  pub,                  \* the publishData() calls still awaited
  last,                 \* history: what the last step was, where it was a
                        \* send, a dropped packet or a speech result
  mounted,              \* VoiceInterface is rendered
  isMicEnabled,
  isSpeaking,
  audioLevels,
  localTrackRef,        \* "null" or "live": the track it refers to captures
  analyserRef,          \* analyserRef.current is set
  rafPending,           \* an animation frame for updateLevels is requested
  dataArray,            \* the spectrum the analyser handed out last
  analysedFor,          \* the isMicEnabled the analysis effect last ran with
  micFor,               \* the room the microphone effect last ran with
  micPc,                \* the microphone call being awaited
  bookingStore,         \* the Booking collection, in insertion order
  requests,             \* POST /api/bookings requests: position and answer
  conn2                 \* a second connect() past the guard: its position

hookVars == <<room, isConnected, isConnecting, error, transcript,
              isAgentTyping, isAgentSpeaking, agentState, agentStateMessage,
              isUserExpectedToSpeak, options, optionsMessage, currentSpeech>>

vars == <<room, isConnected, isConnecting, error, transcript,
          isAgentTyping, isAgentSpeaking, agentState, agentStateMessage,
          isUserExpectedToSpeak, options, optionsMessage, currentSpeech,
          rooms, conn, disc, justStarted, inRow, tick, pub, last,
          mounted, isMicEnabled, isSpeaking, audioLevels, localTrackRef,
          analyserRef, rafPending, dataArray, analysedFor, micFor, micPc,
          bookingStore, requests, conn2>>

serverVars == <<bookingStore, requests>>

RequestIds == 1..MaxRequests

\* a request that has not arrived
NoRequest == [pc |-> "idle", body |-> <<>>, status |-> 0]

voiceVars == <<mounted, isMicEnabled, isSpeaking, audioLevels, localTrackRef,
               analyserRef, rafPending, dataArray, analysedFor, micFor, micPc>>

\* useState([0, 0, 0, 0, 0])
ZeroLevels == <<0, 0, 0, 0, 0>>

\* the dependencies an effect last ran with: none yet for this mount, or
\* <<value>>
Unrun == <<>>

\* what `last` records: nothing, or the kind of step and what it carried
NoNote == [type |-> "none", body |-> <<>>]
SkippedNote == [type |-> "skipped", body |-> <<>>]
IgnoredNote == [type |-> "ignored", body |-> <<>>]
SpeechNote == [type |-> "speech", body |-> <<>>]
EmptyNote == [type |-> "empty", body |-> <<>>]

\* A Room object: transport status, the _speechRecognition and
\* _agentAudioElements properties the hook hangs on it, and the number of
\* remote audio tracks that carry the hook's listeners.
NoRoomObj == [status |-> "none", recog |-> FALSE, audioEls |-> 0, tracks |-> 0]

Init ==
  /\ room = NoRoom
  /\ isConnected = FALSE
  /\ isConnecting = FALSE
  /\ error = Null
  /\ transcript = <<>>
  /\ isAgentTyping = FALSE
  /\ isAgentSpeaking = FALSE
  /\ agentState = Null
  /\ agentStateMessage = Null
  /\ isUserExpectedToSpeak = FALSE
  /\ options = <<>>
  /\ optionsMessage = Null
  /\ currentSpeech = ""
  /\ rooms = [r \in RoomIds |-> NoRoomObj]
  /\ conn = [pc |-> "idle", room |-> NoRoom]
  /\ disc = [pc |-> "idle", room |-> NoRoom, wasOpen |-> FALSE,
            wasConnected |-> FALSE]
  /\ justStarted = FALSE
  /\ inRow = 0
  /\ tick = 0
  /\ pub = <<>>
  /\ last = NoNote
  /\ mounted = FALSE
  /\ isMicEnabled = FALSE
  /\ isSpeaking = FALSE
  /\ audioLevels = ZeroLevels
  /\ localTrackRef = "null"
  /\ analyserRef = FALSE
  /\ rafPending = FALSE
  /\ dataArray = [i \in 1..BinCount |-> 0]
  /\ analysedFor = Unrun
  /\ micFor = Unrun
  /\ micPc = "idle"
  /\ bookingStore = <<>>
  /\ requests = [i \in RequestIds |-> NoRequest]
  /\ conn2 = "idle"

\* history bookkeeping of a step
Note(started, completed, n) ==
  /\ justStarted' = started
  /\ inRow' = completed
  /\ tick' = 1 - tick
  /\ last' = n

\* ... of a step of the hook that publishes nothing
Hist(started, completed) ==
  /\ Note(started, completed, NoNote)
  /\ UNCHANGED <<pub, voiceVars, serverVars, conn2>>

\* ... of a step that is neither "started" nor a disconnect
Other == Hist(FALSE, 0)

agentVars == <<isAgentTyping, isAgentSpeaking, agentState, agentStateMessage,
               isUserExpectedToSpeak>>
promptVars == <<options, optionsMessage, currentSpeech>>

\* useEffect cleanup keyed on [room]: when the room state changes, the
\* previous room (if any) gets room.disconnect().  Room.disconnect() on an
\* open transport starts closing it; on any other it does nothing.
CloseTransport(rs, r) ==
  IF r # NoRoom /\ rs[r].status = "open"
    THEN [rs EXCEPT ![r].status = "closing"]
    ELSE rs

SetRoom(rs, old, new) == IF old = new THEN rs ELSE CloseTransport(rs, old)

\* An awaited promise has settled: `await newRoom.connect()` once the
\* transport has connected, `await room.disconnect()` once it is down.  The
\* continuation is then a queued microtask and runs before any other event
\* or call is handled.
ConnSettled == conn.pc = "connecting" /\ rooms[conn.room].status # "connecting"
DiscSettled ==
  disc.pc = "awaiting" /\ rooms[disc.room].status \in {"closed", "dropped"}
NoMicrotask == ~ConnSettled /\ ~DiscSettled

\* ---------------------------------------------------------------- connect
\* connect(): guard, setIsConnecting(true), setError(null), fetch the token.
ConnectCall ==
  /\ NoMicrotask
  /\ conn.pc = "idle"
  /\ ~(isConnecting \/ isConnected)
  /\ isConnecting' = TRUE
  /\ error' = Null
  /\ conn' = [pc |-> "token", room |-> NoRoom]
  /\ Other
  /\ UNCHANGED <<room, isConnected, transcript, agentVars, promptVars, rooms,
                 disc>>

\* (mutant) the catch surfaces the token error but leaves the connecting flag
TokenFailed_staysConnecting(msg) ==
  /\ NoMicrotask
  /\ conn.pc = "token"
  /\ error' = msg
  /\ conn' = [pc |-> "idle", room |-> NoRoom]
  /\ Other
  /\ UNCHANGED <<room, isConnected, isConnecting, transcript, agentVars,
                 promptVars, rooms, disc>>

\* The token request failed (non-2xx, or a body without a token): catch.
TokenFailed(msg) ==
  /\ NoMicrotask
  /\ conn.pc = "token"
  /\ error' = msg
  /\ isConnecting' = FALSE
  /\ conn' = [pc |-> "idle", room |-> NoRoom]
  /\ Other
  /\ UNCHANGED <<room, isConnected, transcript, agentVars, promptVars, rooms,
                 disc>>

\* The token arrived: new Room(), listeners registered, newRoom.connect().
TokenReceived(r) ==
  /\ NoMicrotask
  /\ conn.pc = "token"
  /\ rooms[r].status = "none"
  /\ \A q \in RoomIds : q < r => rooms[q].status # "none"
  /\ rooms' = [rooms EXCEPT ![r].status = "connecting"]
  /\ conn' = [pc |-> "connecting", room |-> r]
  /\ Other
  /\ UNCHANGED <<hookVars, disc>>

\* (mutant) the Connected handler without setIsConnecting(false)
OnConnected_staysConnecting(r) ==
  /\ NoMicrotask
  /\ rooms[r].status = "connecting"
  /\ rooms' = [rooms EXCEPT ![r].status = "open"]
  /\ isConnected' = TRUE
  /\ Other
  /\ UNCHANGED <<room, isConnecting, error, transcript, agentVars, promptVars,
                 conn, disc>>

\* RoomEvent.Connected
OnConnected(r) ==
  /\ NoMicrotask
  /\ rooms[r].status = "connecting"
  /\ rooms' = [rooms EXCEPT ![r].status = "open"]
  /\ isConnected' = TRUE
  /\ isConnecting' = FALSE
  /\ Other
  /\ UNCHANGED <<room, error, transcript, agentVars, promptVars, conn, disc>>

\* (mutant) the catch surfaces the error but leaves the connecting flag up
ConnectFailed_staysConnecting(r) ==
  /\ NoMicrotask
  /\ conn.pc = "connecting" /\ conn.room = r
  /\ rooms[r].status = "connecting"
  /\ rooms' = [rooms EXCEPT ![r].status = "failed"]
  /\ error' = ErrTransport
  /\ conn' = [pc |-> "idle", room |-> NoRoom]
  /\ Other
  /\ UNCHANGED <<room, isConnected, isConnecting, transcript, agentVars,
                 promptVars, disc>>

\* newRoom.connect() rejected: catch.
ConnectFailed(r) ==
  /\ NoMicrotask
  /\ conn.pc = "connecting" /\ conn.room = r
  /\ rooms[r].status = "connecting"
  /\ rooms' = [rooms EXCEPT ![r].status = "failed"]
  /\ error' = ErrTransport
  /\ isConnecting' = FALSE
  /\ conn' = [pc |-> "idle", room |-> NoRoom]
  /\ Other
  /\ UNCHANGED <<room, isConnected, transcript, agentVars, promptVars, disc>>

\* "webkitSpeechRecognition" in window || "SpeechRecognition" in window
HasSpeechApi == TRUE

\* (mutant) the continuation without setRoom(newRoom)
ConnectResume_noSetRoom(r) ==
  /\ conn.pc = "connecting" /\ conn.room = r
  /\ ConnSettled
  /\ rooms' = [rooms EXCEPT ![r].recog = HasSpeechApi]
  /\ conn' = [pc |-> "idle", room |-> NoRoom]
  /\ Other
  /\ UNCHANGED <<room, isConnected, isConnecting, error, transcript, agentVars,
                 promptVars, disc>>

\* newRoom.connect() resolved: setRoom(newRoom), then speech recognition is
\* started where the browser has it and stored on the room.
ConnectResume(r) ==
  /\ conn.pc = "connecting" /\ conn.room = r
  /\ ConnSettled
  /\ room' = r
  /\ rooms' = [SetRoom(rooms, room, r) EXCEPT ![r].recog = HasSpeechApi]
  /\ conn' = [pc |-> "idle", room |-> NoRoom]
  /\ Other
  /\ UNCHANGED <<isConnected, isConnecting, error, transcript, agentVars,
                 promptVars, disc>>

\* connect() invoked twice from one callback (one render): both invocations
\* read the isConnecting and isConnected that the callback closed over, so
\* the second passes the guard although the first has already called
\* setIsConnecting(true).  Each runs to its own `await fetch`.
ConnectTwice ==
  /\ NoMicrotask
  /\ conn.pc = "idle" /\ conn2 = "idle"
  /\ ~(isConnecting \/ isConnected)
  /\ isConnecting' = TRUE
  /\ error' = Null
  /\ conn' = [pc |-> "token", room |-> NoRoom]
  /\ conn2' = "token"
  /\ Note(FALSE, 0, NoNote)
  /\ UNCHANGED <<room, isConnected, transcript, agentVars, promptVars, rooms,
                 disc, pub, voiceVars, serverVars>>

\* The second invocation's token request failed: its catch.
Token2Failed(msg) ==
  /\ NoMicrotask
  /\ conn2 = "token"
  /\ error' = msg
  /\ isConnecting' = FALSE
  /\ conn2' = "idle"
  /\ Note(FALSE, 0, NoNote)
  /\ UNCHANGED <<room, isConnected, transcript, agentVars, promptVars, rooms,
                 conn, disc, pub, voiceVars, serverVars>>

\* The second invocation's token arrived: new Room(), listeners registered,
\* newRoom.connect().  With MaxRooms rooms it is followed only where the
\* first invocation has ended, and then in the first one's place.
Token2Received(r) ==
  /\ NoMicrotask
  /\ conn2 = "token"
  /\ conn.pc = "idle"
  /\ rooms[r].status = "none"
  /\ \A q \in RoomIds : q < r => rooms[q].status # "none"
  /\ rooms' = [rooms EXCEPT ![r].status = "connecting"]
  /\ conn' = [pc |-> "connecting", room |-> r]
  /\ conn2' = "idle"
  /\ Note(FALSE, 0, NoNote)
  /\ UNCHANGED <<hookVars, disc, pub, voiceVars, serverVars>>

\* (mutant) the handler resets the connection and agent state but leaves the
\* options and the caption
OnDisconnected_keepsPrompt(r) ==
  /\ NoMicrotask
  /\ rooms[r].status \in {"open", "closing"}
  /\ rooms' = [rooms EXCEPT
                 ![r].status = IF @ = "closing" THEN "closed" ELSE "dropped"]
  /\ isConnected' = FALSE
  /\ isConnecting' = FALSE
  /\ isAgentTyping' = FALSE
  /\ agentState' = Null
  /\ agentStateMessage' = Null
  /\ isUserExpectedToSpeak' = FALSE
  /\ Other
  /\ UNCHANGED <<room, error, transcript, isAgentSpeaking, promptVars, conn,
                 disc>>

\* (mutant) the handler also empties the transcript
OnDisconnected_clearsTranscript(r) ==
  /\ NoMicrotask
  /\ rooms[r].status \in {"open", "closing"}
  /\ rooms' = [rooms EXCEPT
                 ![r].status = IF @ = "closing" THEN "closed" ELSE "dropped"]
  /\ isConnected' = FALSE
  /\ isConnecting' = FALSE
  /\ isAgentTyping' = FALSE
  /\ agentState' = Null
  /\ agentStateMessage' = Null
  /\ isUserExpectedToSpeak' = FALSE
  /\ options' = <<>>
  /\ optionsMessage' = Null
  /\ currentSpeech' = ""
  /\ transcript' = <<>>
  /\ Other
  /\ UNCHANGED <<room, error, isAgentSpeaking, conn, disc>>

\* RoomEvent.Disconnected: after room.disconnect() or a drop by the far side.
OnDisconnected(r) ==
  /\ NoMicrotask
  /\ rooms[r].status \in {"open", "closing"}
  /\ rooms' = [rooms EXCEPT
                 ![r].status = IF @ = "closing" THEN "closed" ELSE "dropped"]
  /\ isConnected' = FALSE
  /\ isConnecting' = FALSE
  /\ isAgentTyping' = FALSE
  /\ agentState' = Null
  /\ agentStateMessage' = Null
  /\ isUserExpectedToSpeak' = FALSE
  /\ options' = <<>>
  /\ optionsMessage' = Null
  /\ currentSpeech' = ""
  /\ Other
  /\ UNCHANGED <<room, error, transcript, isAgentSpeaking, conn, disc>>

\* --------------------------------------------------------------- delivery
\* The hook never removes a listener, so a room's handlers stay callable for
\* as long as the room object lives.  Live: the transport is up.  Late: the
\* transport is down (a straggler from the torn-down room).
Live(r) == rooms[r].status \in {"open", "closing"}
Late(r) == rooms[r].status \in {"closed", "dropped"}
Deliverable(r) == NoMicrotask /\ (Live(r) \/ Late(r))

\* ------------------------------------------------------------- disconnect
\* The room captured by the disconnect callback being invoked: the one of the
\* latest render, or, for a call repeated back to back, the callback just
\* used.
ClosureRooms == {room} \cup (IF inRow >= 1 THEN {disc.room} ELSE {})

Bump(n) == IF n >= 2 THEN 2 ELSE n + 1

\* disconnect() with room == null: the `if (room)` body is skipped.
DisconnectNoop ==
  /\ NoMicrotask
  /\ disc.pc = "idle"
  /\ NoRoom \in ClosureRooms
  /\ disc' = [pc |-> "idle", room |-> NoRoom, wasOpen |-> FALSE,
              wasConnected |-> FALSE]
  /\ Hist(FALSE, Bump(inRow))
  /\ UNCHANGED <<hookVars, rooms, conn>>

\* disconnect() up to `await room.disconnect()`: recognition stopped and
\* deleted, audio elements paused and deleted, transport told to close.
DisconnectCall(r) ==
  /\ NoMicrotask
  /\ disc.pc = "idle"
  /\ r \in ClosureRooms /\ r # NoRoom
  /\ rooms' = CloseTransport(
                [rooms EXCEPT ![r].recog = FALSE, ![r].audioEls = 0], r)
  /\ disc' = [pc |-> "awaiting", room |-> r,
              wasOpen |-> (rooms[r].status = "open"),
              wasConnected |-> isConnected]
  /\ Hist(FALSE, inRow)
  /\ UNCHANGED <<hookVars, conn>>

\* (mutant) a disconnect() that found its room already down reports it
DisconnectResume_errorWhenClosed ==
  /\ DiscSettled
  /\ room' = NoRoom
  /\ rooms' = SetRoom(rooms, room, NoRoom)
  /\ isConnected' = FALSE
  /\ transcript' = <<>>
  /\ isAgentTyping' = FALSE
  /\ agentState' = Null
  /\ agentStateMessage' = Null
  /\ isUserExpectedToSpeak' = FALSE
  /\ error' = IF disc.wasOpen THEN error ELSE "Room is not connected"
  /\ disc' = [pc |-> "idle", room |-> disc.room, wasOpen |-> FALSE,
              wasConnected |-> FALSE]
  /\ Hist(FALSE, Bump(inRow))
  /\ UNCHANGED <<isConnecting, isAgentSpeaking, promptVars, conn>>

\* disconnect() after the await: the seven setters.
DisconnectResume ==
  /\ DiscSettled
  /\ room' = NoRoom
  /\ rooms' = SetRoom(rooms, room, NoRoom)
  /\ isConnected' = FALSE
  /\ transcript' = <<>>
  /\ isAgentTyping' = FALSE
  /\ agentState' = Null
  /\ agentStateMessage' = Null
  /\ isUserExpectedToSpeak' = FALSE
  /\ disc' = [pc |-> "idle", room |-> disc.room, wasOpen |-> FALSE,
              wasConnected |-> FALSE]
  /\ Hist(FALSE, Bump(inRow))
  /\ UNCHANGED <<isConnecting, error, isAgentSpeaking, promptVars, conn>>

\* ----------------------------------------------------------- track events
\* RoomEvent.TrackSubscribed
OnTrackSubscribed(r, isAudio, isRemote) ==
  /\ Deliverable(r)
  /\ rooms[r].tracks < MaxTracks
  /\ IF isAudio /\ isRemote
       THEN /\ isAgentTyping' = TRUE
            /\ rooms' = [rooms EXCEPT ![r].audioEls = @ + 1,
                                      ![r].tracks = @ + 1]
       ELSE UNCHANGED <<isAgentTyping, rooms>>
  /\ Other
  /\ UNCHANGED <<room, isConnected, isConnecting, error, transcript,
                 isAgentSpeaking, agentState, agentStateMessage,
                 isUserExpectedToSpeak, promptVars, conn, disc>>

\* (mutant) the updater hands every state back, 'ready_to_speak' included
ClearReadyToSpeak_keeps(prevState) == prevState

\* the updater both "started" and the transcript branch pass to setAgentState
ClearReadyToSpeak(prevState) ==
  IF prevState = "ready_to_speak" THEN Null ELSE prevState

\* track.on("started")
OnTrackStarted(r) ==
  /\ Deliverable(r)
  /\ rooms[r].tracks > 0
  /\ isAgentTyping' = FALSE
  /\ isAgentSpeaking' = TRUE
  /\ agentState' = ClearReadyToSpeak(agentState)
  /\ agentStateMessage' = Null
  /\ Hist(TRUE, 0)
  /\ UNCHANGED <<room, isConnected, isConnecting, error, transcript,
                 isUserExpectedToSpeak, promptVars, rooms, conn, disc>>

\* (mutant) "ended" moves to waiting_for_user without raising the flag
OnTrackEnded_noFlag(r) ==
  /\ Deliverable(r)
  /\ rooms[r].tracks > 0
  /\ isAgentTyping' = FALSE
  /\ isAgentSpeaking' = FALSE
  /\ agentState' = "waiting_for_user"
  /\ agentStateMessage' = WaitingMessage
  /\ Other
  /\ UNCHANGED <<room, isConnected, isConnecting, error, transcript,
                 isUserExpectedToSpeak, promptVars, rooms, conn, disc>>

\* track.on("ended")
OnTrackEnded(r) ==
  /\ Deliverable(r)
  /\ rooms[r].tracks > 0
  /\ isAgentTyping' = FALSE
  /\ isAgentSpeaking' = FALSE
  /\ agentState' = "waiting_for_user"
  /\ agentStateMessage' = WaitingMessage
  /\ isUserExpectedToSpeak' = TRUE
  /\ Other
  /\ UNCHANGED <<room, isConnected, isConnecting, error, transcript,
                 promptVars, rooms, conn, disc>>

\* track.on("muted")
OnTrackMuted(r) ==
  /\ Deliverable(r)
  /\ rooms[r].tracks > 0
  /\ isAgentSpeaking' = FALSE
  /\ Other
  /\ UNCHANGED <<room, isConnected, isConnecting, error, transcript,
                 isAgentTyping, agentState, agentStateMessage,
                 isUserExpectedToSpeak, promptVars, rooms, conn, disc>>

\* track.on("unmuted")
OnTrackUnmuted(r) ==
  /\ Deliverable(r)
  /\ rooms[r].tracks > 0
  /\ isAgentSpeaking' = TRUE
  /\ Other
  /\ UNCHANGED <<room, isConnected, isConnecting, error, transcript,
                 isAgentTyping, agentState, agentStateMessage,
                 isUserExpectedToSpeak, promptVars, rooms, conn, disc>>

\* ----------------------------------------------------------- data channel
\* JSON.parse(text) followed by the reads of data.type: "object" yields the
\* object; "garbage" throws in the parser and "null" throws on `data.type`,
\* both inside the inner try.
Parses(p) == p.kind = "object"

\* `text && text.trim()`
NonBlank(p) == p.kind # "blank"

TypingStates == {"thinking", "processing", "ready_to_speak"}

\* the updater passed to setTranscript
IsDuplicate(prev, speaker, text) ==
  \E i \in 1..Len(prev) : prev[i].speaker = speaker /\ prev[i].text = text

\* (mutant) the new entry is put in front: [newEntry, ...prev]
AppendUnlessDuplicate_inFront(prev, speaker, text) ==
  IF IsDuplicate(prev, speaker, text)
    THEN prev
    ELSE <<[speaker |-> speaker, text |-> text]>> \o prev

AppendUnlessDuplicate(prev, speaker, text) ==
  IF IsDuplicate(prev, speaker, text)
    THEN prev
    ELSE Append(prev, [speaker |-> speaker, text |-> text])

HandleStateUpdate(d) ==
  /\ agentState' = d.state
  /\ agentStateMessage' = OrElse(d.message, Null)
  /\ isUserExpectedToSpeak' = (d.state = "waiting_for_user")
  /\ isAgentTyping' = (d.state \in TypingStates)
  /\ UNCHANGED <<transcript, promptVars>>

HandleOptions(d) ==
  /\ options' = IF d.hasOptions THEN d.options ELSE <<>>
  /\ optionsMessage' = OrElse(d.message, Null)
  /\ UNCHANGED <<transcript, isAgentTyping, agentState, agentStateMessage,
                 isUserExpectedToSpeak, currentSpeech>>

HandleCurrentSpeech(d) ==
  /\ currentSpeech' = OrElse(d.text, "")
  /\ UNCHANGED <<transcript, isAgentTyping, agentState, agentStateMessage,
                 isUserExpectedToSpeak, options, optionsMessage>>

\* (mutant) the branch without its `if (transcriptText)` test
HandleTranscript_noTextTest(d) ==
  /\ isAgentTyping' = FALSE
  /\ agentState' = ClearReadyToSpeak(agentState)
  /\ agentStateMessage' = Null
  /\ transcript' =
       AppendUnlessDuplicate(transcript, OrElse(d.speaker, "agent"), d.text)
  /\ UNCHANGED <<isUserExpectedToSpeak, promptVars>>

HandleTranscript(d) ==
  IF Truthy(d.text)
    THEN /\ isAgentTyping' = FALSE
         /\ agentState' = ClearReadyToSpeak(agentState)
         /\ agentStateMessage' = Null
         /\ transcript' =
              AppendUnlessDuplicate(transcript, OrElse(d.speaker, "agent"),
                                    d.text)
         /\ UNCHANGED <<isUserExpectedToSpeak, promptVars>>
    ELSE UNCHANGED <<transcript, isAgentTyping, agentState, agentStateMessage,
                     isUserExpectedToSpeak, promptVars>>

\* (mutant) an object of an unknown type wipes the caption
HandleUnknown_clearsCaption ==
  /\ currentSpeech' = ""
  /\ UNCHANGED <<transcript, isAgentTyping, agentState, agentStateMessage,
                 isUserExpectedToSpeak, options, optionsMessage>>

\* no `if (data.type === ...)` matches: the handler falls through
HandleUnknown ==
  UNCHANGED <<transcript, isAgentTyping, agentState, agentStateMessage,
              isUserExpectedToSpeak, promptVars>>

KnownTypes == {"state_update", "options", "current_speech", "transcript"}

\* a packet of the remote participant that no branch of the handler takes:
\* blank, not JSON, or an object of some other type
Dropped(p) == ~NonBlank(p) \/ ~Parses(p) \/ p.data.type \notin KnownTypes

\* a transcript message whose text is missing or empty
EmptyTranscript(p) ==
  NonBlank(p) /\ Parses(p) /\ p.data.type = "transcript" /\ ~Truthy(p.data.text)

\* RoomEvent.DataReceived
OnDataReceived(r, fromRemote, p) ==
  /\ Deliverable(r)
  /\ p.kind = "object" /\ p.data.type = "transcript" /\ Truthy(p.data.text)
       => Len(AppendUnlessDuplicate(transcript,
                OrElse(p.data.speaker, "agent"), p.data.text)) <= MaxLen
  /\ IF fromRemote /\ NonBlank(p) /\ Parses(p)
       THEN CASE p.data.type = "state_update" -> HandleStateUpdate(p.data)
              [] p.data.type = "options" -> HandleOptions(p.data)
              [] p.data.type = "current_speech" -> HandleCurrentSpeech(p.data)
              [] p.data.type = "transcript" -> HandleTranscript(p.data)
              [] OTHER -> HandleUnknown
       ELSE UNCHANGED <<transcript, isAgentTyping, agentState,
                        agentStateMessage, isUserExpectedToSpeak, promptVars>>
  /\ Note(FALSE, 0, IF fromRemote /\ Dropped(p) THEN IgnoredNote
                    ELSE IF fromRemote /\ EmptyTranscript(p) THEN EmptyNote
                    ELSE NoNote)
  /\ UNCHANGED <<room, isConnected, isConnecting, error, isAgentSpeaking,
                 rooms, conn, disc, pub, voiceVars, serverVars, conn2>>

\* ------------------------------------------------------ addTranscriptEntry
AddSpeakers == {"user"}
AddTexts == {"", "a"}

addTranscriptEntry(speaker, text) ==
  /\ NoMicrotask
  /\ Len(transcript) < MaxLen
  /\ transcript' = Append(transcript, [speaker |-> speaker, text |-> text])
  /\ Other
  /\ UNCHANGED <<room, isConnected, isConnecting, error, agentVars,
                 promptVars, rooms, conn, disc>>

\* ------------------------------------------------------------------ sends
\* A text is a sequence of characters; String.prototype.trim() strips the
\* white space at both ends.
Texts == {<<>>, <<" ">>, <<"t">>, <<" ", "t", " ">>}

RECURSIVE TrimStart(_)
TrimStart(t) ==
  IF t # <<>> /\ Head(t) = " " THEN TrimStart(Tail(t)) ELSE t

RECURSIVE TrimEnd(_)
TrimEnd(t) ==
  IF t # <<>> /\ t[Len(t)] = " " THEN TrimEnd(SubSeq(t, 1, Len(t) - 1)) ELSE t

Trim(t) == TrimEnd(TrimStart(t))

\* the options a caller may pass: none, or a label
Selections == {"", "x"}

\* `!room || !isConnected`
NoSession == room = NoRoom \/ ~isConnected

\* (mutant) the guard looks at the room handle only
sendTextMessage_ignoresStatus(text) ==
  /\ NoMicrotask
  /\ IF room = NoRoom \/ Trim(text) = <<>>
       THEN /\ Note(FALSE, 0, SkippedNote)
            /\ UNCHANGED pub
       ELSE /\ Len(pub) < MaxInFlight
            /\ pub' = Append(pub, "text")
            /\ Note(FALSE, 0, [type |-> "user_message", body |-> Trim(text)])
  /\ UNCHANGED <<hookVars, rooms, conn, disc, voiceVars, serverVars, conn2>>

\* sendTextMessage(text), up to `await publishData(...)`
sendTextMessage(text) ==
  /\ NoMicrotask
  /\ IF NoSession \/ Trim(text) = <<>>
       THEN /\ Note(FALSE, 0, SkippedNote)
            /\ UNCHANGED pub
       ELSE /\ Len(pub) < MaxInFlight
            /\ pub' = Append(pub, "text")
            /\ Note(FALSE, 0, [type |-> "user_message", body |-> Trim(text)])
  /\ UNCHANGED <<hookVars, rooms, conn, disc, voiceVars, serverVars, conn2>>

\* (mutant) the selection is sent without the optimistic clear
sendOptionSelection_keepsOptions(option) ==
  /\ NoMicrotask
  /\ IF NoSession \/ ~Truthy(option)
       THEN /\ Note(FALSE, 0, SkippedNote)
            /\ UNCHANGED pub
       ELSE /\ Len(pub) < MaxInFlight
            /\ pub' = Append(pub, "option")
            /\ Note(FALSE, 0,
                    [type |-> "option_selected", body |-> <<option>>])
  /\ UNCHANGED <<hookVars, rooms, conn, disc, voiceVars, serverVars, conn2>>

\* sendOptionSelection(option), up to `await publishData(...)`
sendOptionSelection(option) ==
  /\ NoMicrotask
  /\ IF NoSession \/ ~Truthy(option)
       THEN /\ Note(FALSE, 0, SkippedNote)
            /\ UNCHANGED <<options, optionsMessage, pub>>
       ELSE /\ Len(pub) < MaxInFlight
            /\ options' = <<>>
            /\ optionsMessage' = Null
            /\ pub' = Append(pub, "option")
            /\ Note(FALSE, 0,
                    [type |-> "option_selected", body |-> <<option>>])
  /\ UNCHANGED <<room, isConnected, isConnecting, error, transcript, agentVars,
                 currentSpeech, rooms, conn, disc, voiceVars, serverVars, conn2>>

\* the awaited publishData() settles: resolved, or rejected into the catch
PublishSettles(ok) ==
  /\ NoMicrotask
  /\ pub # <<>>
  /\ pub' = Tail(pub)
  /\ error' = IF ok THEN error
                    ELSE IF Head(pub) = "text" THEN ErrSendText
                                               ELSE ErrSendOption
  /\ Note(FALSE, 0, NoNote)
  /\ UNCHANGED <<room, isConnected, isConnecting, transcript, agentVars,
                 promptVars, rooms, conn, disc, voiceVars, serverVars, conn2>>

\* (mutant) the recognised text is appended as a user entry
OnSpeechResult_appends(r, text) ==
  /\ NoMicrotask
  /\ rooms[r].recog
  /\ Len(transcript) < MaxLen
  /\ transcript' = Append(transcript, [speaker |-> "user", text |-> "a"])
  /\ Note(FALSE, 0, SpeechNote)
  /\ UNCHANGED <<room, isConnected, isConnecting, error, agentVars,
                 promptVars, rooms, conn, disc, pub, voiceVars, serverVars, conn2>>

\* recognition.onresult: the recognised text is logged, nothing else
OnSpeechResult(r, text) ==
  /\ NoMicrotask
  /\ rooms[r].recog
  /\ Note(FALSE, 0, SpeechNote)
  /\ UNCHANGED <<hookVars, rooms, conn, disc, pub, voiceVars, serverVars, conn2>>

\* what the user does: speaks, types, picks an option
UserEvents ==
  \/ \E t \in Texts : sendTextMessage(t)
  \/ \E o \in Selections : sendOptionSelection(o)
  \/ \E ok \in BOOLEAN : PublishSettles(ok)
  \/ \E r \in RoomIds, t \in Texts : OnSpeechResult(r, t)

\* --------------------------------------------------------- VoiceInterface
\* (src/frontend/src/components/VoiceInterface.js; App.js renders it while
\* isConnected.)  Each effect is a step of its own: React runs a useEffect
\* callback some time after the render that scheduled it.

\* analyser.frequencyBinCount bytes per tick, split into five bands
Bands == 5
BandSize == BinCount \div Bands
Bytes == {0, 255}
Spectra == [1..BinCount -> Bytes]

\* the spectra a tick is given while the session runs: silence, or a voice
\* whose lowest bin and top band are at full scale
Silence == [i \in 1..BinCount |-> 0]
Voiced == [i \in 1..BinCount |-> IF i = 1 \/ i > 4 * BandSize THEN 255 ELSE 0]
TickSpectra == {Silence, Voiced}

\* levels are kept as exact fractions: a level v stands for v / LevelUnit
LevelUnit == 255 * BandSize
FullScale == 100
SpeakingThreshold == 30

RECURSIVE SumBins(_, _, _)
SumBins(d, from, n) ==
  IF n = 0 THEN 0 ELSE d[from] + SumBins(d, from + 1, n - 1)

\* `sum` of band i (0-based), so that avg = BandSum / BandSize
BandSum(d, i) == SumBins(d, i * BandSize + 1, BandSize)

\* (mutant) scaled against half the byte range, and not clamped
Normalize_halfRange(sum) == sum * FullScale * 2

\* Math.min(100, (level / 255) * 100), for level = sum / BandSize
Normalize(sum) ==
  IF sum * FullScale > FullScale * LevelUnit THEN FullScale * LevelUnit
                                             ELSE sum * FullScale

Levels(d) == [i \in 1..Bands |-> Normalize(BandSum(d, i - 1))]

\* maxLevel > 30
Loud(d) == \E i \in 0..(Bands - 1) : BandSum(d, i) > SpeakingThreshold * BandSize

\* getByteFrequencyData(dataArray): anything while the track captures; once
\* it is stopped the analyser's smoothing (0.85) lets the last spectrum die
\* away, so no bin exceeds what it was
Readable(d) ==
  localTrackRef = "live" \/ \A i \in 1..BinCount : d[i] <= dataArray[i]

VoiceStep ==
  /\ NoMicrotask
  /\ Note(FALSE, 0, NoNote)
  /\ UNCHANGED <<hookVars, rooms, conn, disc, pub, serverVars, conn2>>

\* App.js: {isConnected && <VoiceInterface .../>} starts rendering it
Mount ==
  /\ isConnected /\ ~mounted
  /\ mounted' = TRUE
  /\ VoiceStep
  /\ UNCHANGED <<isMicEnabled, isSpeaking, audioLevels, localTrackRef,
                 analyserRef, rafPending, dataArray, analysedFor, micFor,
                 micPc>>

\* ... stops rendering it: both effects' cleanups run and the instance, with
\* its state and whatever it still awaits, is gone
Unmount ==
  /\ ~isConnected /\ mounted
  /\ mounted' = FALSE
  /\ isMicEnabled' = FALSE
  /\ isSpeaking' = FALSE
  /\ audioLevels' = ZeroLevels
  /\ localTrackRef' = "null"
  /\ analyserRef' = FALSE
  /\ rafPending' = FALSE
  /\ dataArray' = Silence
  /\ analysedFor' = Unrun
  /\ micFor' = Unrun
  /\ micPc' = "idle"
  /\ VoiceStep

\* useEffect(..., [isMicEnabled]): the previous run's cleanup, then the body,
\* whose first updateLevels() runs at once
AnalysisEffect(d) ==
  /\ mounted
  /\ analysedFor # <<isMicEnabled>>
  /\ analysedFor' = <<isMicEnabled>>
  /\ IF ~isMicEnabled \/ localTrackRef = "null"
       THEN /\ isSpeaking' = FALSE
            /\ audioLevels' = ZeroLevels
            /\ analyserRef' = FALSE
            /\ rafPending' = FALSE
            /\ UNCHANGED dataArray
       ELSE /\ Readable(d)
            /\ analyserRef' = TRUE
            /\ dataArray' = d
            /\ audioLevels' = Levels(d)
            /\ isSpeaking' = Loud(d)
            /\ rafPending' = TRUE
  /\ VoiceStep
  /\ UNCHANGED <<mounted, isMicEnabled, localTrackRef, micFor, micPc>>

\* updateLevels, called back by requestAnimationFrame
updateLevels(d) ==
  /\ mounted
  /\ rafPending
  /\ IF ~analyserRef
       THEN /\ rafPending' = FALSE
            /\ UNCHANGED <<audioLevels, isSpeaking, dataArray>>
       ELSE /\ Readable(d)
            /\ dataArray' = d
            /\ audioLevels' = Levels(d)
            /\ isSpeaking' = Loud(d)
            /\ rafPending' = TRUE
  /\ VoiceStep
  /\ UNCHANGED <<mounted, isMicEnabled, localTrackRef, analyserRef,
                 analysedFor, micFor, micPc>>

\* useEffect(..., [room, isConnected]): the previous run's cleanup stops the
\* track; the body calls enableMic() when there is a session
MicEffect ==
  /\ mounted /\ isConnected
  /\ micFor # <<room>>
  /\ micPc = "idle"
  /\ micFor' = <<room>>
  /\ localTrackRef' = IF micFor \notin {Unrun, <<NoRoom>>} THEN "null"
                                                          ELSE localTrackRef
  /\ micPc' = IF room # NoRoom THEN "enabling" ELSE "idle"
  /\ VoiceStep
  /\ UNCHANGED <<mounted, isMicEnabled, isSpeaking, audioLevels, analyserRef,
                 rafPending, dataArray, analysedFor>>

\* createLocalAudioTrack() and publishTrack() settle, in enableMic or in the
\* enabling half of toggleMic: the track is kept, or the catch runs
MicEnabled(ok) ==
  /\ mounted
  /\ micPc = "enabling"
  /\ micPc' = "idle"
  /\ localTrackRef' = IF ok THEN "live" ELSE localTrackRef
  /\ isMicEnabled' = ok
  /\ VoiceStep
  /\ UNCHANGED <<mounted, isSpeaking, audioLevels, analyserRef, rafPending,
                 dataArray, analysedFor, micFor>>

\* toggleMic, up to its first await
toggleMic ==
  /\ mounted
  /\ micPc = "idle"
  /\ micPc' = IF NoSession \/ isAgentSpeaking THEN "idle"
              ELSE IF isMicEnabled THEN "disabling" ELSE "enabling"
  /\ VoiceStep
  /\ UNCHANGED <<mounted, isMicEnabled, isSpeaking, audioLevels, localTrackRef,
                 analyserRef, rafPending, dataArray, analysedFor, micFor>>

\* toggleMic after `await unpublishTrack`: the track is stopped, the flags and
\* the levels are reset
MicDisabled ==
  /\ mounted
  /\ micPc = "disabling"
  /\ micPc' = "idle"
  /\ localTrackRef' = "null"
  /\ isMicEnabled' = FALSE
  /\ isSpeaking' = FALSE
  /\ audioLevels' = ZeroLevels
  /\ VoiceStep
  /\ UNCHANGED <<mounted, analyserRef, rafPending, dataArray, analysedFor,
                 micFor>>

VoiceEvents ==
  \/ Mount
  \/ Unmount
  \/ \E d \in TickSpectra : AnalysisEffect(d)
  \/ \E d \in TickSpectra : updateLevels(d)
  \/ MicEffect
  \/ \E ok \in BOOLEAN : MicEnabled(ok)
  \/ toggleMic
  \/ MicDisabled

\* the remote track's events
TrackEvents ==
  \/ \E r \in RoomIds, a \in BOOLEAN, b \in BOOLEAN : OnTrackSubscribed(r, a, b)
  \/ \E r \in RoomIds : OnTrackStarted(r)
  \/ \E r \in RoomIds : OnTrackEnded(r)
  \/ \E r \in RoomIds : OnTrackMuted(r)
  \/ \E r \in RoomIds : OnTrackUnmuted(r)

\* connect(), disconnect() and the transport's own events
Lifecycle ==
  \/ ConnectCall
  \/ \E msg \in {ErrTokenHttp, ErrNoToken} : TokenFailed(msg)
  \/ \E r \in RoomIds : TokenReceived(r)
  \/ \E r \in RoomIds : OnConnected(r)
  \/ \E r \in RoomIds : ConnectFailed(r)
  \/ \E r \in RoomIds : ConnectResume(r)
  \/ \E r \in RoomIds : OnDisconnected(r)
  \/ DisconnectNoop
  \/ \E r \in RoomIds : DisconnectCall(r)
  \/ DisconnectResume

DataEvents ==
  \E r \in RoomIds, i \in DataInputs :
    OnDataReceived(r, i.fromRemote, i.payload)

Next ==
  \/ DataEvents
  \/ TrackEvents
  \/ \E s \in AddSpeakers, t \in AddTexts : addTranscriptEntry(s, t)
  \/ Lifecycle

Spec == Init /\ [][Next]_vars

\* The session without the data channel and without addTranscriptEntry: only
\* the connection lifecycle and the remote track's events act on the state.
NextTracks == TrackEvents \/ Lifecycle

SpecTracks == Init /\ [][NextTracks]_vars

\* The token service answers: a failure, or a token.
TokenAnswers ==
  \/ \E msg \in {ErrTokenHttp, ErrNoToken} : TokenFailed(msg)
  \/ \E r \in RoomIds : TokenReceived(r)

\* The transport answers newRoom.connect(): Connected, or a rejection.
TransportAnswers ==
  \E r \in RoomIds : OnConnected(r) \/ ConnectFailed(r)

\* Continuations of resolved promises, which the event loop always runs.
Microtasks ==
  \/ DisconnectResume
  \/ \E r \in RoomIds : ConnectResume(r)

\* SpecTracks where the token service and the transport eventually answer and
\* the event loop runs every continuation.  An answer is a task queued in the
\* event loop: it waits while a continuation is pending (NoMicrotask) and is
\* run once the loop gets to it, however often other tasks come in between,
\* hence strong fairness; a continuation is run before any other task, hence
\* weak fairness.
SpecAnswered ==
  /\ Init /\ [][NextTracks]_vars
  /\ SF_vars(TokenAnswers)
  /\ SF_vars(TransportAnswers)
  /\ WF_vars(Microtasks)

\* The session as the application drives it: addTranscriptEntry, which no
\* component calls, left out.
NextProtocol == DataEvents \/ TrackEvents \/ Lifecycle

SpecProtocol == Init /\ [][NextProtocol]_vars

\* The session with a caller that may invoke connect() twice in a row.
NextConnect ==
  \/ ConnectTwice
  \/ \E msg \in {ErrTokenHttp, ErrNoToken} : Token2Failed(msg)
  \/ \E r \in RoomIds : Token2Received(r)
  \/ TrackEvents
  \/ Lifecycle

SpecConnect == Init /\ [][NextConnect]_vars

\* packets that carry a message of type "transcript", with or without text
TranscriptInputs ==
  {i \in DataInputs :
     i.payload.kind = "object" /\ i.payload.data.type = "transcript"}

TranscriptEvents ==
  \E r \in RoomIds, i \in TranscriptInputs :
    OnDataReceived(r, i.fromRemote, i.payload)

\* The session as the transcript sees it: the inbound messages that reach the
\* transcript branch, track events, the user's sends and the lifecycle.
NextSession == TranscriptEvents \/ TrackEvents \/ UserEvents \/ Lifecycle

SpecSession == Init /\ [][NextSession]_vars

\* The session between the user and the agent: the data channel in both
\* directions and the local speech listener, without the remote track.
NextUser == DataEvents \/ UserEvents \/ Lifecycle

SpecUser == Init /\ [][NextUser]_vars

\* The microphone component on top of the session's lifecycle.
NextVoice == VoiceEvents \/ TrackEvents \/ Lifecycle

SpecVoice == Init /\ [][NextVoice]_vars

\* The analyser alone: a session is up, the microphone is on and the analysis
\* effect has run; every tick is given any spectrum.
InitAnalysing ==
  /\ room = 1
  /\ isConnected = TRUE
  /\ isConnecting = FALSE
  /\ error = Null
  /\ transcript = <<>>
  /\ isAgentTyping = FALSE
  /\ isAgentSpeaking = FALSE
  /\ agentState = Null
  /\ agentStateMessage = Null
  /\ isUserExpectedToSpeak = FALSE
  /\ options = <<>>
  /\ optionsMessage = Null
  /\ currentSpeech = ""
  /\ rooms = [r \in RoomIds |->
                IF r = 1 THEN [NoRoomObj EXCEPT !.status = "open",
                                                !.recog = HasSpeechApi]
                         ELSE NoRoomObj]
  /\ conn = [pc |-> "idle", room |-> NoRoom]
  /\ disc = [pc |-> "idle", room |-> NoRoom, wasOpen |-> FALSE,
            wasConnected |-> FALSE]
  /\ justStarted = FALSE
  /\ inRow = 0
  /\ tick = 0
  /\ pub = <<>>
  /\ last = NoNote
  /\ mounted = TRUE
  /\ isMicEnabled = TRUE
  /\ isSpeaking = FALSE
  /\ audioLevels = ZeroLevels
  /\ localTrackRef = "live"
  /\ analyserRef = TRUE
  /\ rafPending = TRUE
  /\ dataArray = Silence
  /\ analysedFor = <<TRUE>>
  /\ micFor = <<1>>
  /\ micPc = "idle"
  /\ bookingStore = <<>>
  /\ requests = [i \in RequestIds |-> NoRequest]
  /\ conn2 = "idle"

NextLevels == \E d \in Spectra : updateLevels(d)

SpecLevels == InitAnalysing /\ [][NextLevels]_vars

\* ------------------------------------------------------ POST /api/bookings
\* (src/backend/routes/bookings.js.)  Each `await` of the handler is a point
\* where another request's handler may run.

\* bookingDate as sent, and `new Date(bookingDate)`: the instant it denotes
DateInputs == {"2025-01-01", "2025-01-01T00:00:00.000Z", "2025-01-02"}
ToDate(d) ==
  IF d = "2025-01-01" THEN "2025-01-01T00:00:00.000Z"
  ELSE IF d = "2025-01-02" THEN "2025-01-02T00:00:00.000Z"
  ELSE d

\* /^([0-1][0-9]|2[0-3]):[0-5][0-9]$/.test(bookingTime)
ValidTime(t) == t \in {"19:00"}

\* request bodies: bookable ones, one without guests, one with a time that
\* is not HH:mm, one the schema rejects (min: 1)
Bodies ==
  {[numberOfGuests |-> 2, bookingDate |-> d, bookingTime |-> "19:00"] :
     d \in DateInputs}
  \cup {[numberOfGuests |-> 0, bookingDate |-> "2025-01-01",
         bookingTime |-> "19:00"],
        [numberOfGuests |-> 2, bookingDate |-> "2025-01-01",
         bookingTime |-> "7pm"],
        [numberOfGuests |-> -1, bookingDate |-> "2025-01-02",
         bookingTime |-> "19:00"]}

\* Booking.findOne({bookingDate: new Date(bookingDate), bookingTime})
FindOne(store, b) ==
  \E k \in 1..Len(store) :
    /\ store[k].bookingDate = ToDate(b.bookingDate)
    /\ store[k].bookingTime = b.bookingTime

ServerStep ==
  /\ Note(FALSE, 0, NoNote)
  /\ UNCHANGED <<hookVars, rooms, conn, disc, pub, voiceVars, conn2>>

Answer(i, code) ==
  requests' = [requests EXCEPT ![i].pc = "done", ![i].status = code]

\* the request arrives: the two validations, then `await Booking.findOne`
PostBooking(i, b) ==
  /\ requests[i].pc = "idle"
  /\ \A j \in RequestIds : j < i => requests[j].pc # "idle"
  /\ IF b.numberOfGuests = 0 \/ ~ValidTime(b.bookingTime)
       THEN requests' = [requests EXCEPT ![i] =
                           [pc |-> "done", body |-> b, status |-> 400]]
       ELSE requests' = [requests EXCEPT ![i] =
                           [pc |-> "finding", body |-> b, status |-> 0]]
  /\ UNCHANGED bookingStore
  /\ ServerStep

\* findOne resolves: 409 when a booking matches, else `await Booking.create`
DuplicateCheck(i) ==
  /\ requests[i].pc = "finding"
  /\ IF FindOne(bookingStore, requests[i].body)
       THEN Answer(i, 409)
       ELSE requests' = [requests EXCEPT ![i].pc = "creating"]
  /\ UNCHANGED bookingStore
  /\ ServerStep

\* create resolves with the stored document, or rejects on the schema's
\* validation into the catch (500); then `await sendBookingConfirmation`
CreateBooking(i) ==
  /\ requests[i].pc = "creating"
  /\ IF requests[i].body.numberOfGuests < 1
       THEN /\ Answer(i, 500)
            /\ UNCHANGED bookingStore
       ELSE /\ bookingStore' =
                 Append(bookingStore,
                        [bookingDate |-> ToDate(requests[i].body.bookingDate),
                         bookingTime |-> requests[i].body.bookingTime,
                         request |-> i])
            /\ requests' = [requests EXCEPT ![i].pc = "emailing"]
  /\ ServerStep

\* the confirmation mail is sent or fails: 201 either way
Respond(i) ==
  /\ requests[i].pc = "emailing"
  /\ Answer(i, 201)
  /\ UNCHANGED bookingStore
  /\ ServerStep

\* the database call being awaited rejects: catch, 500
DatabaseError(i) ==
  /\ requests[i].pc \in {"finding", "creating"}
  /\ Answer(i, 500)
  /\ UNCHANGED bookingStore
  /\ ServerStep

NextBookings ==
  \/ \E i \in RequestIds, b \in Bodies : PostBooking(i, b)
  \/ \E i \in RequestIds : DuplicateCheck(i)
  \/ \E i \in RequestIds : CreateBooking(i)
  \/ \E i \in RequestIds : Respond(i)
  \/ \E i \in RequestIds : DatabaseError(i)

SpecBookings == Init /\ [][NextBookings]_vars

\* ================================================================= claims

\* C1: after any sequence of remote audio-track lifecycle events delivered to
\* a connected session, isAgentTyping and isAgentSpeaking are never both true.
C1_TypingSpeakingExclusive ==
  (\E r \in RoomIds : Live(r)) => ~(isAgentTyping /\ isAgentSpeaking)

\* C2: the transcript never holds two adjacent entries with the same speaker
\* and the same text.
C2_NoAdjacentDuplicates ==
  \A i \in 1..(Len(transcript) - 1) : transcript[i] # transcript[i + 1]

\* A step that handles the data packet p from the remote participant.
RemoteData(p) == \E r \in RoomIds : OnDataReceived(r, TRUE, p)

ObjectPayload(m) == [kind |-> "object", data |-> m]

LastEntryIs(speaker, text) ==
  /\ Len(transcript) > 0
  /\ transcript[Len(transcript)].speaker = speaker
  /\ transcript[Len(transcript)].text = text

\* C3: a transcript message with non-empty text leaves the length unchanged
\* when the last entry has the identical (speaker, text), and in every other
\* case appends exactly one entry at the end.
C3_AppendUnlessLastIsSame ==
  [][\A m \in TranscriptMsgs :
       (Truthy(m.text) /\ RemoteData(ObjectPayload(m)))
         => IF LastEntryIs(OrElse(m.speaker, "agent"), m.text)
              THEN Len(transcript') = Len(transcript)
              ELSE transcript' =
                     Append(transcript, [speaker |-> OrElse(m.speaker, "agent"),
                                         text |-> m.text])]_vars

\* C4 as stated: after handling any message of type 'transcript',
\* isAgentTyping is false and agentState is not 'ready_to_speak'.
C4_AnyTranscriptClearsTyping ==
  [][\A m \in TranscriptMsgs :
       RemoteData(ObjectPayload(m))
         => (~isAgentTyping' /\ agentState' # "ready_to_speak")]_vars

\* C4 amended: after handling a message of type 'transcript' that carries a
\* non-empty text, isAgentTyping is false and agentState is not
\* 'ready_to_speak'.
C4_TextTranscriptClearsTyping ==
  [][\A m \in TranscriptMsgs :
       (Truthy(m.text) /\ RemoteData(ObjectPayload(m)))
         => (~isAgentTyping' /\ agentState' # "ready_to_speak")]_vars

\* an agent entry is in the log (only a transcript message writes one), the
\* typing flag is down and a state the message does not touch survived
C4_Witness ==
  /\ \E i \in 1..Len(transcript) : transcript[i].speaker = "agent"
  /\ ~isAgentTyping
  /\ agentState = "thinking"
  /\ agentStateMessage = Null

\* C5: "started" handled, then state_update{ready_to_speak} handled with no
\* event in between or after: the final agentState is not 'ready_to_speak'.
C5_ReadyAfterStartedIsCleared ==
  [][\A m \in StateUpdateMsgs :
       (justStarted /\ m.state = "ready_to_speak"
          /\ RemoteData(ObjectPayload(m)))
         => agentState' # "ready_to_speak"]_vars

\* disconnect() has run to completion on room r and nothing has connected
\* since.
TornDown(r) ==
  /\ Late(r)
  /\ disc.pc = "idle" /\ disc.room = r
  /\ room = NoRoom
  /\ conn.pc = "idle" /\ ~isConnecting

\* a track event or a data packet of room r is handled
EventOf(r) ==
  \/ \E a \in BOOLEAN, b \in BOOLEAN : OnTrackSubscribed(r, a, b)
  \/ OnTrackStarted(r)
  \/ OnTrackEnded(r)
  \/ OnTrackMuted(r)
  \/ OnTrackUnmuted(r)
  \/ \E i \in DataInputs : OnDataReceived(r, i.fromRemote, i.payload)

\* C6: after disconnect() has completed, an event of the torn-down room that
\* is delivered late changes none of the cleared state.
C6_LateEventChangesNothing ==
  [][\A r \in RoomIds :
       (TornDown(r) /\ EventOf(r))
         => UNCHANGED <<agentState, agentStateMessage, isUserExpectedToSpeak,
                        isAgentTyping, isAgentSpeaking, options, currentSpeech,
                        transcript>>]_vars

\* a step of disconnect(): the skipped body, the part before the await, or
\* the part after it
DisconnectStep ==
  \/ DisconnectNoop
  \/ \E r \in RoomIds : DisconnectCall(r)
  \/ DisconnectResume

\* C7: disconnect() is idempotent: no step of a disconnect() that directly
\* follows a completed disconnect() changes anything the hook returns.
C7_DisconnectIdempotent ==
  [][(inRow >= 1 /\ DisconnectStep) => hookVars' = hookVars]_vars

\* two disconnect() calls were completed back to back and the second one ran
\* the body (it was made through the callback that had captured the room)
C7_Witness ==
  inRow = 2 /\ disc.room # NoRoom /\ rooms[disc.room].status = "closed"

\* C8: when disconnect() completes on a session whose room was open, the
\* agent state, the options, the caption and the transcript are all cleared.
C8_DisconnectClears ==
  [][(disc.wasOpen /\ DisconnectResume)
       => /\ agentState' = Null
          /\ agentStateMessage' = Null
          /\ options' = <<>>
          /\ optionsMessage' = Null
          /\ currentSpeech' = ""
          /\ transcript' = <<>>]_vars

\* disconnect() has just completed on the callback's room
C8_Witness ==
  /\ inRow = 1 /\ disc.room # NoRoom /\ room = NoRoom
  /\ rooms[disc.room].status = "closed"
  /\ agentState = Null /\ options = <<>> /\ currentSpeech = ""
  /\ transcript = <<>>

\* C9: no state is observable in which a disconnect() is only partly applied:
\* isConnected false and agentState/options cleared while the transcript and
\* the room handle of that session are still there.
C9_NoPartialTeardown ==
  ~(/\ disc.pc = "awaiting" /\ disc.wasOpen
    /\ room = disc.room
    /\ ~isConnected
    /\ agentState = Null /\ options = <<>>
    /\ transcript # <<>>)

\* C10: disconnect() called while isConnected is false changes nothing the
\* hook returns.
C10_DisconnectWhenNotConnectedIsNoop ==
  [][(\/ ~isConnected /\ (DisconnectNoop \/ \E r \in RoomIds : DisconnectCall(r))
      \/ ~disc.wasConnected /\ DisconnectResume)
       => hookVars' = hookVars]_vars

\* a step in which connect() ends in its catch block
ConnectAborts ==
  \/ \E msg \in {ErrTokenHttp, ErrNoToken} : TokenFailed(msg)
  \/ \E r \in RoomIds : ConnectFailed(r)

Fresh ==
  /\ isConnected /\ agentState = Null /\ ~isAgentTyping /\ transcript = <<>>

\* C12: on a freshly connected session state_update{thinking} gives
\* agentState 'thinking' and isAgentTyping true; a following
\* transcript{agent, t} gives agentState cleared, isAgentTyping false and a
\* transcript of exactly the one entry (agent, t).
C12_ThinkingThenTranscript ==
  [][/\ \A m \in StateUpdateMsgs :
          (Fresh /\ m.state = "thinking" /\ RemoteData(ObjectPayload(m)))
            => (agentState' = "thinking" /\ isAgentTyping')
     /\ \A m \in TranscriptMsgs :
          (/\ isConnected /\ agentState = "thinking" /\ isAgentTyping
           /\ transcript = <<>>
           /\ m.speaker = "agent" /\ Truthy(m.text)
           /\ RemoteData(ObjectPayload(m)))
            => /\ agentState' = Null
               /\ ~isAgentTyping'
               /\ transcript' = <<[speaker |-> "agent", text |-> m.text]>>]_vars

\* C13: isAgentTyping is a function of agentState: true exactly when
\* agentState is thinking, processing or ready_to_speak.
C13_TypingFollowsState == isAgentTyping <=> agentState \in TypingStates

\* C14: isUserExpectedToSpeak is true if and only if agentState is
\* 'waiting_for_user'.
C14_ExpectedIffWaiting ==
  isUserExpectedToSpeak <=> agentState = "waiting_for_user"

\* the agent finished speaking and started again: the flag and the state
\* both outlive the "started" handler
C14_Witness ==
  /\ isUserExpectedToSpeak /\ agentState = "waiting_for_user"
  /\ isAgentSpeaking /\ agentStateMessage = Null

\* C15: when connected, sendOptionSelection(o) with a non-empty o and
\* non-empty options clears options and optionsMessage in the step that
\* starts the publish, publishes one option_selected envelope carrying o, and
\* the settling of the publish, either way, leaves them cleared.
C15_OptimisticClear ==
  [][/\ \A o \in Selections :
          (/\ isConnected /\ room # NoRoom
           /\ o # "" /\ options # <<>>
           /\ sendOptionSelection(o))
            => /\ options' = <<>>
               /\ optionsMessage' = Null
               /\ last' = [type |-> "option_selected", body |-> <<o>>]
               /\ pub' = Append(pub, "option")
     /\ (\E ok \in BOOLEAN : PublishSettles(ok))
          => UNCHANGED <<options, optionsMessage>>]_vars

\* an option has just been sent: the publish is pending, the options are gone
C15_Witness ==
  /\ last.type = "option_selected" /\ pub = <<"option">>
  /\ isConnected /\ options = <<>> /\ optionsMessage = Null

\* no session is up: the status says so, or no transport is open
Disconnected == ~isConnected \/ \A r \in RoomIds : ~Live(r)

\* C16: sendTextMessage and sendOptionSelection invoked while the session is
\* disconnected publish nothing, change nothing the hook returns and set no
\* error.
C16_SendWhileDisconnectedIsNoop ==
  [][(/\ Disconnected
      /\ \/ \E t \in Texts : sendTextMessage(t)
         \/ \E o \in Selections : sendOptionSelection(o))
       => /\ hookVars' = hookVars
          /\ pub' = pub
          /\ last' = SkippedNote]_vars

\* a send was skipped after the far side dropped a session with a transcript
C16_Witness ==
  /\ last = SkippedNote /\ ~isConnected /\ room # NoRoom
  /\ transcript # <<>>

DroppedPayloads == {p \in Payloads : Dropped(p)}

\* C17: a payload that is not valid JSON, or that parses to an object of an
\* unknown type, leaves every value the hook returns unchanged and does not
\* end the session.
C17_DroppedPacketChangesNothing ==
  [][\A p \in DroppedPayloads :
       RemoteData(p) => (hookVars' = hookVars /\ rooms' = rooms)]_vars

\* a packet was dropped on a session that has state to lose
C17_Witness ==
  /\ last = IgnoredNote /\ isConnected
  /\ transcript # <<>> /\ agentState = "thinking" /\ currentSpeech # ""

C19_NoLevelsWithoutCapture ==
  localTrackRef = "null" => (audioLevels = ZeroLevels /\ ~isSpeaking)

\* C20: the vector an analyzer tick produces always has exactly five entries,
\* each within [0, 100].
C20_LevelsInRange ==
  /\ Len(audioLevels) = 5
  /\ \A i \in 1..Len(audioLevels) :
       0 <= audioLevels[i] /\ audioLevels[i] <= 100 * LevelUnit

\* a tick has produced a half-scale band next to a full-scale one
C20_Witness ==
  /\ analyserRef /\ isSpeaking
  /\ audioLevels[1] = 50 * LevelUnit
  /\ audioLevels[2] = 0
  /\ audioLevels[5] = 100 * LevelUnit

\* C21: the store never holds two bookings with the same bookingDate and
\* bookingTime, under any interleaving of POST /api/bookings requests.
C21_NoDoubleBooking ==
  \A j, k \in 1..Len(bookingStore) :
    (/\ bookingStore[j].bookingDate = bookingStore[k].bookingDate
     /\ bookingStore[j].bookingTime = bookingStore[k].bookingTime) => j = k

\* C22: state_update{ready_to_speak} and the audio "started" event of one
\* utterance leave the same agentState, isAgentTyping and isAgentSpeaking in
\* both delivery orders: what "started" makes of the state the message left
\* (first conjunct) is also what results when the message comes second.
C22_OrderIndependent ==
  [][/\ (/\ agentState = "ready_to_speak" /\ isAgentTyping
         /\ \E r \in RoomIds : OnTrackStarted(r))
          => /\ agentState' = ClearReadyToSpeak("ready_to_speak")
             /\ ~isAgentTyping' /\ isAgentSpeaking'
     /\ \A m \in StateUpdateMsgs :
          (justStarted /\ m.state = "ready_to_speak"
             /\ RemoteData(ObjectPayload(m)))
            => /\ agentState' = ClearReadyToSpeak("ready_to_speak")
               /\ ~isAgentTyping' /\ isAgentSpeaking']_vars

\* C23: once a session has ended (disconnect() completed, or the transport's
\* Disconnected event handled), isAgentSpeaking, isAgentTyping and
\* isUserExpectedToSpeak are all false, whatever the state was before.
C23_FlagsDownAfterSessionEnd ==
  [][(DisconnectResume \/ \E r \in RoomIds : OnDisconnected(r))
       => /\ ~isAgentSpeaking'
          /\ ~isAgentTyping'
          /\ ~isUserExpectedToSpeak']_vars

\* C24: connect() invoked while the session is connecting or connected has
\* no effect, also when it is invoked twice before the first invocation's
\* state update is visible: at most one invocation is past the guard, so at
\* most one token request or transport is in progress at any time.
C24_OneConnectAtATime == ~(conn.pc # "idle" /\ conn2 # "idle")

\* C25: when the transport's Disconnected event is handled without a
\* disconnect() call (the room was open, not closing), the transcript is
\* unchanged, isConnected becomes false and agentState, agentStateMessage,
\* options, optionsMessage and currentSpeech are cleared; a non-empty
\* transcript becomes empty only in disconnect().
C25_DropKeepsTranscript ==
  [][/\ \A r \in RoomIds :
          (rooms[r].status = "open" /\ OnDisconnected(r))
            => /\ transcript' = transcript
               /\ ~isConnected'
               /\ agentState' = Null /\ agentStateMessage' = Null
               /\ options' = <<>> /\ optionsMessage' = Null
               /\ currentSpeech' = ""
     /\ (transcript # <<>> /\ transcript' = <<>>) => DisconnectResume]_vars

\* a dropped session that still shows what was said
C25_Witness ==
  \E r \in RoomIds :
    /\ rooms[r].status = "dropped" /\ room = r
    /\ ~isConnected
    /\ Len(transcript) = MaxLen

IsPrefix(s, t) == Len(s) <= Len(t) /\ SubSeq(t, 1, Len(s)) = s

\* C27: within a session the transcript is append-only: every step other
\* than the completion of disconnect() leaves the earlier transcript as a
\* prefix of the later one, under any interleaving of inbound messages, track
\* events and send actions.
C27_AppendOnly ==
  [][DisconnectResume \/ IsPrefix(transcript, transcript')]_vars

\* a full log on a session that has seen speech and a send
C27_Witness ==
  /\ Len(transcript) = MaxLen
  /\ transcript[1] # transcript[2]
  /\ isConnected /\ isAgentSpeaking /\ pub # <<>>

C29_ConnectingEnds ==
  isConnecting ~> (~isConnecting /\ (isConnected \/ error # Null))

\* a connect attempt that ended at the token request
C29_Witness ==
  /\ ~isConnecting /\ ~isConnected
  /\ error \in {ErrTokenHttp, ErrNoToken}
  /\ conn.pc = "idle"

\* C30 as stated: whenever isConnected is true the room handle is set.
C30_ConnectedHasRoom == isConnected => room # NoRoom

\* C30, amended: in every connected state in which a call or an event can be
\* handled (no continuation of a settled await is pending), the room handle
\* is set and refers to a transport that is up, so disconnect() and the sends
\* never find a null handle.
C30_ConnectedHasRoomWhenCallable ==
  (isConnected /\ NoMicrotask) => (room # NoRoom /\ Live(room))

\* disconnect() called in a connected state has reached the live transport
C30_Witness ==
  /\ isConnected /\ NoMicrotask
  /\ room # NoRoom /\ rooms[room].status = "closing"
  /\ disc.pc = "awaiting" /\ disc.room = room /\ disc.wasOpen

====
